---- MODULE Spec2Model ----
(***************************************************************************)
(* The screenplay scans of TeeWallz/the-dude-abides:                       *)
(*   src/scripts/1_download_and_process_movie_script-text_v1.py  ("V1")    *)
(*   src/scripts/1_download_and_process_movie_script.py          ("Main")  *)
(* Text is modelled by TLA+ strings, one Python character per character;  *)
(* Python's None is the empty tuple None and Some(x) is <<x>>.             *)
(***************************************************************************)
EXTENDS Integers, Sequences, FiniteSets, TLC

VARIABLES
    raw_text,          \* parse_script: what _extract_script_text returned
    lines,             \* the lines of raw_text the for loop has taken so far
    pc,                \* "start", "scanning", "done" (returned), "failed" (raised)
    elements,          \* the elements the generator has yielded, in order
    result,            \* what the caller of parse_script holds: None or <<value>>
    error,             \* the exception that left parse_script: None or <<exc>>
    kinds,             \* history: the type each line of `lines` was classified as
    read_title,        \* V1: read_title
    movie_title_attr,  \* V1: script.movie_title of the generator's local Script
    current_element,   \* V1: current_element (None or <<ScriptElement>>)
    movie_title,       \* V1: the movie_title argument of parse_script
    current_character, \* Main: current_character (None or <<str>>)
    current_dialogue,  \* Main: current_dialogue (list of str)
    in_dialogue,       \* Main: in_dialogue
    sources,           \* history: for each of `elements`, the numbers of the lines it was built from
    pending_src,       \* history: the numbers of the lines held in the open element / dialogue buffer
    call,              \* a helper called on its own: None or <<[fn, arg, rets]>>
    conc               \* two scans run concurrently: None or <<[frame, scan]>>

vars == <<raw_text, lines, pc, elements, result, error, kinds, read_title,
          movie_title_attr, current_element, movie_title, current_character,
          current_dialogue, in_dialogue, sources, pending_src, call, conc>>

\* Bounds of the model.
MaxLines == 4

None == <<>>
Some(x) == <<x>>

-----------------------------------------------------------------------------
(* Python str primitives.                                                  *)

Chr(s, i) == SubSeq(s, i, i)

UpperChars == "ABCDEFGHIJKLMNOPQRSTUVWXYZ"
LowerChars == "abcdefghijklmnopqrstuvwxyz"

CharIn(c, s) == \E i \in 1..Len(s) : Chr(s, i) = c

\* str.isspace for one character: the whitespace str.strip() and str.split() use
IsSpaceChar(c) == c \in {" ", "\t", "\n", "\r"}

\* str.isupper(): at least one cased character and no lower-case character
isupper(s) ==
    /\ \E i \in 1..Len(s) : CharIn(Chr(s, i), UpperChars)
    /\ \A i \in 1..Len(s) : ~CharIn(Chr(s, i), LowerChars)

UpperOf(c) ==
    IF CharIn(c, LowerChars)
    THEN Chr(UpperChars, CHOOSE i \in 1..Len(LowerChars) : Chr(LowerChars, i) = c)
    ELSE c

\* str.upper()
RECURSIVE upper(_)
upper(s) == IF s = "" THEN "" ELSE UpperOf(Chr(s, 1)) \o upper(Tail(s))

\* len(s.split()): the number of maximal runs of non-whitespace characters
WordCount(s) ==
    Cardinality({i \in 1..Len(s) :
        /\ ~IsSpaceChar(Chr(s, i))
        /\ (i = 1 \/ IsSpaceChar(Chr(s, i - 1)))})

startswith(s, p) == Len(s) >= Len(p) /\ SubSeq(s, 1, Len(p)) = p
endswith(s, p) == Len(s) >= Len(p) /\ SubSeq(s, Len(s) - Len(p) + 1, Len(s)) = p

\* str.replace(old, new) for a one-character old
RECURSIVE replace(_, _, _)
replace(s, old, new) ==
    IF s = "" THEN ""
    ELSE (IF Chr(s, 1) = old THEN new ELSE Chr(s, 1)) \o replace(Tail(s), old, new)

\* re.sub(r' +', ' ', s)
RECURSIVE CollapseSpaces(_)
CollapseSpaces(s) ==
    IF Len(s) < 2 THEN s
    ELSE IF Chr(s, 1) = " " /\ Chr(s, 2) = " " THEN CollapseSpaces(Tail(s))
    ELSE Chr(s, 1) \o CollapseSpaces(Tail(s))

RECURSIVE lstrip(_)
lstrip(s) == IF s # "" /\ IsSpaceChar(Chr(s, 1)) THEN lstrip(Tail(s)) ELSE s

RECURSIVE rstrip(_)
rstrip(s) ==
    IF s # "" /\ IsSpaceChar(Chr(s, Len(s)))
    THEN rstrip(SubSeq(s, 1, Len(s) - 1)) ELSE s

\* str.strip()
strip(s) == rstrip(lstrip(s))

\* s[1:-1]
Slice1m1(s) == IF Len(s) <= 2 THEN "" ELSE SubSeq(s, 2, Len(s) - 1)

\* ' '.join(xs)
RECURSIVE join(_)
join(xs) ==
    IF Len(xs) = 0 THEN ""
    ELSE IF Len(xs) = 1 THEN xs[1]
    ELSE xs[1] \o " " \o join(Tail(xs))

-----------------------------------------------------------------------------
(* ScriptParser helpers, the same in both files.                           *)

\* Mutant of _clean_text: newlines are replaced after the spaces are collapsed.
_clean_text_NewlineLast(text) ==
    strip(replace(CollapseSpaces(replace(text, "\r", "")), "\n", " "))

\* ScriptParser._clean_text (lines 41-45; lines 85-89 of V1)
_clean_text(text) ==
    strip(CollapseSpaces(replace(replace(text, "\r", ""), "\n", " ")))

\* ScriptParser._clean_text of the html file (lines 47-53)
_clean_text_html(text, include_tabs) ==
    LET t1 == replace(replace(text, "\r", ""), "\n", "")
        t2 == IF include_tabs THEN replace(t1, "\t", "") ELSE t1
    IN strip(CollapseSpaces(t2))

\* Mutant of CountLeading: the tabs are counted first, then the spaces.
RECURSIVE CountLeading_TabsThenSpaces(_, _, _)
CountLeading_TabsThenSpaces(line, tabs, spaces) ==
    IF line = "" THEN <<tabs, spaces>>
    ELSE IF Chr(line, 1) = "\t" /\ spaces = 0
    THEN CountLeading_TabsThenSpaces(Tail(line), tabs + 1, spaces)
    ELSE IF Chr(line, 1) = " "
    THEN CountLeading_TabsThenSpaces(Tail(line), tabs, spaces + 1)
    ELSE <<tabs, spaces>>

\* the for loop of _get_indentation_level: (tabs, spaces) of the leading run
RECURSIVE CountLeading(_, _, _)
CountLeading(line, tabs, spaces) ==
    IF line = "" THEN <<tabs, spaces>>
    ELSE IF Chr(line, 1) = "\t" THEN CountLeading(Tail(line), tabs + 1, spaces)
    ELSE IF Chr(line, 1) = " " THEN CountLeading(Tail(line), tabs, spaces + 1)
    ELSE <<tabs, spaces>>

\* ScriptParser._get_indentation_level: <<total_indent, cleaned_line>>
_get_indentation_level(line) ==
    IF line = "" THEN <<0, "">>
    ELSE LET c == CountLeading(line, 0, 0)
             tabs == c[1]
             spaces == c[2]
         IN <<tabs + (spaces \div 4), SubSeq(line, tabs + spaces + 1, Len(line))>>

-----------------------------------------------------------------------------
(* Data model.                                                             *)

\* ScriptElement(element_type, content, metadata)
ScriptElement(element_type, content, metadata) ==
    [element_type |-> element_type, content |-> content, metadata |-> metadata]

\* Script(title, elements) after __post_init__ and the add_element calls
Script(title, els) == [title |-> title, elements |-> els]

\* Splitter.split of the sentence_splitter package: a sentence ends at '.', '?'
\* or '!' followed by one space and an upper-case letter.
IsSentenceEnd(text, i) ==
    /\ i + 2 <= Len(text)
    /\ Chr(text, i) \in {".", "?", "!"}
    /\ Chr(text, i + 1) = " "
    /\ CharIn(Chr(text, i + 2), UpperChars)

RECURSIVE Splitter_split(_)
Splitter_split(text) ==
    IF text = "" THEN <<>>
    ELSE IF \E i \in 1..Len(text) : IsSentenceEnd(text, i)
    THEN LET i == CHOOSE k \in 1..Len(text) :
                     /\ IsSentenceEnd(text, k)
                     /\ \A j \in 1..(k - 1) : ~IsSentenceEnd(text, j)
         IN <<SubSeq(text, 1, i)>> \o Splitter_split(SubSeq(text, i + 2, Len(text)))
    ELSE <<text>>

\* The raw lines the scans are run on (tab-indented, as on the script archive).
Lines ==
    { "",
      "  ",
      "INT. ROOM - DAY",
      "\tA man walks in.",
      "\t\t\tJOHN",
      "\t\t(quietly)",
      "\t\tI don't know.",
      "()",
      "\t\t\t\t\tCUT TO:",
      "\t\t\t\t\t\t\t\t\tJOHN" }

\* The movie_title arguments parse_script is called with (line 272).
MovieTitles == {"Big-Lebowski,-The"}

\* Mutant of Falsy: only the empty string is tested (raw_text == "").
Falsy_EmptyOnly(r) == r = Some("")

\* `if not raw_text`: None and the empty string are falsy
Falsy(r) == r = None \/ r = Some("")

\* the separator raw_text.split() is given
RECURSIVE JoinLines(_, _)
JoinLines(ls, sep) ==
    IF Len(ls) = 0 THEN ""
    ELSE IF Len(ls) = 1 THEN ls[1]
    ELSE ls[1] \o sep \o JoinLines(Tail(ls), sep)

\* Exceptions
ValueError(indent_level, line) ==
    [kind |-> "ValueError", indent_level |-> indent_level, raw_text |-> line]
IndexError == [kind |-> "IndexError", indent_level |-> -1, raw_text |-> ""]
AttributeError == [kind |-> "AttributeError", indent_level |-> -1, raw_text |-> ""]

-----------------------------------------------------------------------------
(* V1: 1_download_and_process_movie_script-text_v1.py                      *)

\* ScriptParser._get_element_type; "None" is Python's None (returned, or the
\* function ending without a return), "ValueError" is the raise of line 164.
_get_element_type(raw, clean_text, indent_level) ==
    IF clean_text = "" THEN "None"
    ELSE IF indent_level = 0 /\ isupper(clean_text) THEN "SCENE_HEADING"
    ELSE IF indent_level = 0 THEN "ACTION"
    ELSE IF indent_level = 1 THEN
        (IF isupper(clean_text) THEN "DIALOGUE" ELSE "ACTION")
    ELSE IF indent_level = 2 THEN "DIALOGUE"
    ELSE IF indent_level = 3 THEN
        (IF startswith(clean_text, "(") /\ endswith(clean_text, ")")
         THEN "DIALOGUE" ELSE "None")
    ELSE IF indent_level = 4 THEN "DIALOGUE"
    ELSE IF indent_level = 5 THEN "TRANSITION"
    ELSE IF indent_level = 6 THEN "TRANSITION"
    ELSE "ValueError"

\* lines 218-223 (and 229-234, 237-242): first text, or ' '-joined to content[0]
AppendJoined(content, clean_content) ==
    IF Len(content) = 0 THEN <<clean_content>>
    ELSE [content EXCEPT ![1] =
             (IF @ # "" THEN @ \o " " ELSE @) \o clean_content]

\* Mutant of Accumulate: the first line of a Dialogue is also kept as content.
Accumulate_CueInContent(el, clean_content) ==
    CASE el.element_type = "ACTION" ->
             [el EXCEPT !.content = AppendJoined(@, clean_content)]
      [] el.element_type = "DIALOGUE" ->
             IF el.metadata.character = None
             THEN [el EXCEPT !.metadata.character = Some(clean_content),
                             !.content = AppendJoined(@, clean_content)]
             ELSE [el EXCEPT !.content = AppendJoined(@, clean_content)]
      [] el.element_type = "PARENTHETICAL" ->
             [el EXCEPT !.content = AppendJoined(@, clean_content)]
      [] el.element_type \in {"SCENE_HEADING", "TRANSITION"} ->
             [el EXCEPT !.content = Append(@, clean_content)]
      [] OTHER -> el

\* the match statement of lines 216-253 on current_element
Accumulate(el, clean_content) ==
    CASE el.element_type = "ACTION" ->
             [el EXCEPT !.content = AppendJoined(@, clean_content)]
      [] el.element_type = "DIALOGUE" ->
             IF el.metadata.character = None
             THEN [el EXCEPT !.metadata.character = Some(clean_content)]
             ELSE [el EXCEPT !.content = AppendJoined(@, clean_content)]
      [] el.element_type = "PARENTHETICAL" ->
             [el EXCEPT !.content = AppendJoined(@, clean_content)]
      [] el.element_type \in {"SCENE_HEADING", "TRANSITION"} ->
             [el EXCEPT !.content = Append(@, clean_content)]
      [] OTHER -> el

\* lines 209-214: the element a non-empty line opens
NewElement(element_type, indent_level) ==
    ScriptElement(element_type, <<>>,
                  [indentation |-> indent_level, character |-> None])

\* One iteration of the for loop of _parse_script_lines (lines 179-253) on
\* `line`, from (read_title, movie_title_attr, current_element):
\*   raised: None or the exception; yielded: the elements yielded, in order.
V1Iteration(line, rt, mta, cur) ==
    LET ind == _get_indentation_level(line)
        indent_level == ind[1]
        clean_content == _clean_text(ind[2])
        element_type == _get_element_type(line, clean_content, indent_level)
        same == [raised |-> None, yielded |-> <<>>, read_title |-> rt,
                 movie_title_attr |-> mta, current_element |-> cur,
                 kind |-> element_type]
        \* lines 206-253, entered with current_element = c
        rest(c, out) ==
            IF clean_content = "" THEN
                [same EXCEPT !.yielded = out, !.current_element = c]
            ELSE LET opened == IF c = None
                               THEN NewElement(element_type, indent_level)
                               ELSE c[1]
                 IN [same EXCEPT !.yielded = out,
                        !.current_element = Some(Accumulate(opened, clean_content))]
    IN  IF element_type = "ValueError" THEN
            [same EXCEPT !.raised = Some(ValueError(indent_level, line))]
        ELSE IF clean_content # "" /\ ~rt THEN
            [same EXCEPT !.read_title = TRUE, !.movie_title_attr = clean_content]
        ELSE IF cur # None /\ cur[1].element_type = "DIALOGUE" /\ clean_content = "" THEN
            [same EXCEPT
                !.yielded = <<IF Len(cur[1].content) # 0
                              THEN [cur[1] EXCEPT !.content = Splitter_split(@[1])]
                              ELSE cur[1]>>,
                !.current_element = None]
        ELSE IF cur # None /\ cur[1].element_type # element_type THEN
            IF cur[1].element_type = "DIALOGUE" THEN
                IF Len(cur[1].content) = 0
                THEN [same EXCEPT !.raised = Some(IndexError)]
                ELSE rest(None, <<[cur[1] EXCEPT !.content = Splitter_split(@[1])]>>)
            ELSE rest(None, <<cur[1]>>)
        ELSE rest(cur, <<>>)

\* Mutant of ResultOnRaise: the partial Script is handed back with the open element.
ResultOnRaise_WithOpenElement(title, els, cur) == Some(Script(title, els \o cur))

\* parse_script, lines 264-267, when the generator raises: the exception
\* leaves parse_script and the caller gets no Script.
ResultOnRaise(title, els, cur) == None

\* Mutant of ResultOnReturn: the generator's own placeholder Script is returned.
ResultOnReturn_Placeholder(title, els) == Some(Script("Movie Title", els))

\* parse_script, lines 264-267, when the generator is exhausted
ResultOnReturn(title, els) == Some(Script(title, els))

ScanInit ==
    /\ raw_text = None
    /\ lines = <<>>
    /\ pc = "start"
    /\ elements = <<>>
    /\ result = None
    /\ error = None
    /\ kinds = <<>>
    /\ read_title = FALSE
    /\ movie_title_attr = None
    /\ current_element = None
    /\ movie_title \in MovieTitles
    /\ current_character = None
    /\ current_dialogue = <<>>
    /\ in_dialogue = FALSE
    /\ sources = <<>>
    /\ pending_src = {}

Init == ScanInit /\ call = None /\ conc = None

HistVars == <<sources, pending_src>>
MainVars == <<current_character, current_dialogue, in_dialogue>>
V1Vars == <<read_title, movie_title_attr, current_element>>

\* parse_script (lines 255-262) when _extract_script_text returned None or "".
\* A text that got past the guard is split and scanned: None has no split
\* (AttributeError), "" is the one empty line, which yields nothing.
V1ParseScriptNoText ==
    /\ pc = "start"
    /\ \E r \in {None, Some("")} :
        /\ raw_text' = r
        /\ IF Falsy(r) THEN
               /\ result' = Some(Script(movie_title, <<>>))
               /\ pc' = "done"
               /\ UNCHANGED <<error, lines, kinds>>
           ELSE IF r = None THEN
               /\ result' = ResultOnRaise(movie_title, elements, current_element)
               /\ error' = Some(AttributeError)
               /\ pc' = "failed"
               /\ UNCHANGED <<lines, kinds>>
           ELSE
               /\ result' = ResultOnReturn(movie_title, elements)
               /\ pc' = "done"
               /\ lines' = <<"">>
               /\ kinds' = <<"None">>
               /\ UNCHANGED error
    /\ UNCHANGED <<elements, movie_title, V1Vars, MainVars, HistVars, call, conc>>

\* One iteration of `for line in lines` (line 179) with the consumer loop of
\* parse_script (lines 265-266) adding what it yields to the Script.
V1Read(from, max) ==
    /\ pc \in {"start", "scanning"}
    /\ Len(lines) < max
    /\ \E line \in from :
        LET it == V1Iteration(line, read_title, movie_title_attr, current_element)
        IN  /\ lines' = Append(lines, line)
            /\ raw_text' = Some(JoinLines(Append(lines, line), "\r\n"))
            /\ kinds' = Append(kinds, it.kind)
            /\ elements' = elements \o it.yielded
            /\ read_title' = it.read_title
            /\ movie_title_attr' = it.movie_title_attr
            /\ current_element' = it.current_element
            /\ sources' = sources \o [k \in 1..Len(it.yielded) |-> pending_src]
            /\ pending_src' =
                   IF it.current_element = None THEN {}
                   ELSE IF current_element = None \/ it.yielded # <<>>
                   THEN {Len(lines) + 1}
                   ELSE IF it.current_element # current_element
                   THEN pending_src \cup {Len(lines) + 1}
                   ELSE pending_src
            /\ IF it.raised # None THEN
                   /\ pc' = "failed"
                   /\ error' = it.raised
                   /\ result' = ResultOnRaise(movie_title, elements', current_element)
               ELSE
                   /\ pc' = "scanning"
                   /\ UNCHANGED <<error, result>>
    /\ UNCHANGED <<movie_title, MainVars, call, conc>>

V1ReadLine == V1Read(Lines, MaxLines)

\* The lines are exhausted: the generator returns (nothing follows the for
\* loop) and parse_script returns the Script (line 267).
V1EndOfInput ==
    /\ pc = "scanning"
    /\ ~Falsy(raw_text)
    /\ result' = ResultOnReturn(movie_title, elements)
    /\ pc' = "done"
    /\ UNCHANGED <<raw_text, lines, elements, error, kinds, movie_title,
                   V1Vars, MainVars, HistVars, call, conc>>

Next == V1ParseScriptNoText \/ V1ReadLine \/ V1EndOfInput

Spec == Init /\ [][Next]_vars

\* The five lines of scenario A (spec 8), scanned by V1 in any order and number.
MaxScenarioLines == 5

ScenarioA ==
    << "\t\t\tTHE GREAT TEST",
       "INT. ROOM - DAY",
       "\tA man walks in.",
       "\t\t\tJOHN",
       "\t\tHello there. How are you?" >>

ScenarioALines == {ScenarioA[i] : i \in 1..Len(ScenarioA)}

V1ReadScenarioLine == V1Read(ScenarioALines, MaxScenarioLines)

NextScenarioA == V1ParseScriptNoText \/ V1ReadScenarioLine \/ V1EndOfInput

SpecScenarioA == Init /\ [][NextScenarioA]_vars

-----------------------------------------------------------------------------
(* Main: 1_download_and_process_movie_script.py                            *)

\* truth value of an Optional[str] / of a list
TruthyStr(c) == c # None /\ c[1] # ""
TruthyList(l) == Len(l) # 0

\* Mutant of PendingDialogue: only the last buffered line is yielded.
PendingDialogue_LastLine(cc, cd) ==
    IF TruthyStr(cc) /\ TruthyList(cd)
    THEN <<ScriptElement("DIALOGUE", cd[Len(cd)], Some([character |-> cc]))>>
    ELSE <<>>

\* lines 105-109 (116-121, 141-145, 153-157): the pending dialogue, if any
PendingDialogue(cc, cd) ==
    IF TruthyStr(cc) /\ TruthyList(cd)
    THEN <<ScriptElement("DIALOGUE", join(cd), Some([character |-> cc]))>>
    ELSE <<>>

\* Mutant of MainBranch: the parenthetical test comes before the dialogue test.
MainBranch_ParentheticalFirst(indent_level, clean_content, ind) ==
    IF clean_content = "" THEN "None"
    ELSE IF indent_level <= 1 /\ isupper(clean_content) /\ WordCount(clean_content) > 2
    THEN "SCENE_HEADING"
    ELSE IF indent_level >= 3 /\ WordCount(clean_content) <= 3 THEN "CHARACTER"
    ELSE IF startswith(clean_content, "(") /\ endswith(clean_content, ")")
    THEN "PARENTHETICAL"
    ELSE IF ind /\ indent_level >= 2 THEN "DIALOGUE"
    ELSE "ACTION"

\* Mutant of MainBranch: the dialogue test comes before the character test.
MainBranch_DialogueFirst(indent_level, clean_content, ind) ==
    IF clean_content = "" THEN "None"
    ELSE IF indent_level <= 1 /\ isupper(clean_content) /\ WordCount(clean_content) > 2
    THEN "SCENE_HEADING"
    ELSE IF ind /\ indent_level >= 2 THEN "DIALOGUE"
    ELSE IF indent_level >= 3 /\ WordCount(clean_content) <= 3 THEN "CHARACTER"
    ELSE IF startswith(clean_content, "(") /\ endswith(clean_content, ")")
    THEN "PARENTHETICAL"
    ELSE "ACTION"

\* The branch of the if/elif chain of lines 99-149 that `line` takes.
MainBranch(indent_level, clean_content, ind) ==
    IF clean_content = "" THEN "None"
    ELSE IF indent_level <= 1 /\ isupper(clean_content) /\ WordCount(clean_content) > 2
    THEN "SCENE_HEADING"
    ELSE IF indent_level >= 3 /\ WordCount(clean_content) <= 3 THEN "CHARACTER"
    ELSE IF ind /\ indent_level >= 2 THEN "DIALOGUE"
    ELSE IF startswith(clean_content, "(") /\ endswith(clean_content, ")")
    THEN "PARENTHETICAL"
    ELSE "ACTION"

\* Mutant of ParentheticalStep: the parenthetical ends the dialogue run.
ParentheticalStep_EndsRun(same, clean_content, cc) ==
    [same EXCEPT
        !.yielded = <<ScriptElement("PARENTHETICAL", Slice1m1(clean_content), None)>>,
        !.current_character = None,
        !.current_dialogue = <<>>,
        !.in_dialogue = FALSE]

\* lines 130-136: the parenthetical branch, from the unchanged iteration `same`
ParentheticalStep(same, clean_content, cc) ==
    [same EXCEPT
        !.yielded = <<ScriptElement("PARENTHETICAL", Slice1m1(clean_content),
                                    Some([character |-> cc]))>>]

\* One iteration of the for loop of _parse_script_lines (lines 95-149) on
\* `line`, from (current_character, current_dialogue, in_dialogue).
MainIteration(line, cc, cd, ind) ==
    LET lv == _get_indentation_level(line)
        indent_level == lv[1]
        clean_content == _clean_text(lv[2])
        branch == MainBranch(indent_level, clean_content, ind)
        same == [yielded |-> <<>>, current_character |-> cc,
                 current_dialogue |-> cd, in_dialogue |-> ind, kind |-> branch]
    IN  CASE branch = "None" -> same
          [] branch = "SCENE_HEADING" ->
                [same EXCEPT
                    !.yielded = PendingDialogue(cc, cd)
                                \o <<ScriptElement("SCENE_HEADING", clean_content, None)>>,
                    !.current_dialogue =
                        IF TruthyStr(cc) /\ TruthyList(cd) THEN <<>> ELSE cd,
                    !.current_character = None]
          [] branch = "CHARACTER" ->
                [same EXCEPT
                    !.yielded = PendingDialogue(cc, cd),
                    !.current_character = Some(upper(clean_content)),
                    !.current_dialogue = <<>>,
                    !.in_dialogue = TRUE]
          [] branch = "DIALOGUE" ->
                [same EXCEPT !.current_dialogue = Append(cd, clean_content)]
          [] branch = "PARENTHETICAL" -> ParentheticalStep(same, clean_content, cc)
          [] OTHER ->
                [same EXCEPT
                    !.yielded = PendingDialogue(cc, cd)
                                \o <<ScriptElement("ACTION", clean_content, None)>>,
                    !.current_dialogue =
                        IF TruthyStr(cc) /\ TruthyList(cd) THEN <<>> ELSE cd,
                    !.current_character = None,
                    !.in_dialogue = FALSE]

\* parse_script (lines 159-167) when _extract_script_text returned None or ""
MainParseScriptNoText ==
    /\ pc = "start"
    /\ \E r \in {None, Some("")} :
        /\ raw_text' = r
        /\ IF Falsy(r) THEN
               /\ result' = Some(<<>>)
               /\ pc' = "done"
               /\ UNCHANGED <<error, lines, kinds>>
           ELSE IF r = None THEN
               /\ result' = None
               /\ error' = Some(AttributeError)
               /\ pc' = "failed"
               /\ UNCHANGED <<lines, kinds>>
           ELSE
               /\ result' = Some(<<>>)
               /\ pc' = "done"
               /\ lines' = <<"">>
               /\ kinds' = <<"None">>
               /\ UNCHANGED error
    /\ UNCHANGED <<elements, movie_title, V1Vars, MainVars, HistVars, call, conc>>

\* One iteration of `for line in lines` (line 95); list() of line 169 collects
\* what it yields.
MainReadLine ==
    /\ pc \in {"start", "scanning"}
    /\ Len(lines) < MaxLines
    /\ \E line \in Lines :
        LET it == MainIteration(line, current_character, current_dialogue, in_dialogue)
        IN  /\ lines' = Append(lines, line)
            /\ raw_text' = Some(JoinLines(Append(lines, line), "\n"))
            /\ kinds' = Append(kinds, it.kind)
            /\ elements' = elements \o it.yielded
            /\ current_character' = it.current_character
            /\ current_dialogue' = it.current_dialogue
            /\ in_dialogue' = it.in_dialogue
            /\ sources' = sources \o
                   (IF it.kind \in {"SCENE_HEADING", "ACTION"}
                    THEN [k \in 1..(Len(it.yielded) - 1) |-> pending_src]
                         \o <<{Len(lines) + 1}>>
                    ELSE IF it.kind = "PARENTHETICAL" THEN <<{Len(lines) + 1}>>
                    ELSE [k \in 1..Len(it.yielded) |-> pending_src])
            /\ pending_src' =
                   IF it.kind = "DIALOGUE" THEN pending_src \cup {Len(lines) + 1}
                   ELSE IF it.current_dialogue = <<>> THEN {}
                   ELSE pending_src
    /\ pc' = "scanning"
    /\ UNCHANGED <<result, error, movie_title, V1Vars, call, conc>>

\* The lines are exhausted: the remaining dialogue is yielded (lines 151-157)
\* and parse_script returns the list (line 169).
MainEndOfInput ==
    /\ pc = "scanning"
    /\ ~Falsy(raw_text)
    /\ elements' = elements \o PendingDialogue(current_character, current_dialogue)
    /\ sources' = sources \o
           [k \in 1..Len(PendingDialogue(current_character, current_dialogue))
               |-> pending_src]
    /\ result' = Some(elements')
    /\ pc' = "done"
    /\ UNCHANGED <<raw_text, lines, error, kinds, movie_title, V1Vars, MainVars,
                   pending_src, call, conc>>

NextMain == MainParseScriptNoText \/ MainReadLine \/ MainEndOfInput

SpecMain == Init /\ [][NextMain]_vars

-----------------------------------------------------------------------------
(* Properties.                                                             *)

IndentOf(line) == _get_indentation_level(line)[1]
CleanOf(line) == _clean_text(_get_indentation_level(line)[2])

NonEmptyLines == {i \in 1..Len(lines) : CleanOf(lines[i]) # ""}
\* the first line read whose normalized content is non-empty
TitleIndex == CHOOSE i \in NonEmptyLines : \A j \in NonEmptyLines : i <= j

AllBlank == lines # <<>> /\ NonEmptyLines = {}

RECURSIVE Contains(_, _)
Contains(s, sub) ==
    IF Len(s) < Len(sub) THEN FALSE
    ELSE startswith(s, sub) \/ Contains(Tail(s), sub)

\* C1: the returned Script's title is the normalized text of the first line
\* whose normalized content is non-empty, and that line never reaches the
\* classifier, so the scan never fails on it.
C1_TitleIsFirstNonEmptyLine ==
    /\ (pc = "done" /\ NonEmptyLines # {})
          => (result # None /\ result[1].title = CleanOf(lines[TitleIndex]))
    /\ (pc = "failed" /\ NonEmptyLines # {}) => TitleIndex < Len(lines)

C3_NoEmptyContent ==
    \A i \in 1..Len(elements) : Len(elements[i].content) > 0

\* C4: every emitted Dialogue element has a non-empty character and a content
\* that is a non-empty sequence of non-empty strings.
C4_DialogueComplete ==
    \A i \in 1..Len(elements) :
        elements[i].element_type = "DIALOGUE" =>
            /\ elements[i].metadata.character # None
            /\ elements[i].metadata.character # Some("")
            /\ Len(elements[i].content) > 0
            /\ \A k \in 1..Len(elements[i].content) : elements[i].content[k] # ""

\* C5: once a non-empty line whose indent level is outside 0..6 has been
\* read, parse has failed with the error that names that line and its level.
C5_OutOfRangeIndentFails ==
    \A i \in 1..Len(lines) :
        (CleanOf(lines[i]) # "" /\ IndentOf(lines[i]) \notin 0..6) =>
            /\ pc = "failed"
            /\ error = Some(ValueError(IndentOf(lines[i]), lines[i]))

\* C6: when the scan has failed, the caller holds no Script, or a Script made
\* of exactly the elements flushed before the failure; never the open element.
C6_NoDanglingElement ==
    pc = "failed" => (result = None \/ result[1].elements = elements)

\* C6 witness: a classification failure while an element is open and others
\* were flushed.
C6_Witness ==
    /\ pc = "failed"
    /\ error # None
    /\ error[1].kind = "ValueError"
    /\ current_element # None
    /\ elements # <<>>

\* The normalized texts of the maximal runs of Action lines, each run joined
\* by single spaces; blank lines do not end a run.
RECURSIVE ActionRuns(_, _, _)
ActionRuns(ls, ks, open) ==
    IF Len(ls) = 0 THEN (IF open = None THEN <<>> ELSE open)
    ELSE IF ks[1] = "ACTION" THEN
        ActionRuns(Tail(ls), Tail(ks),
                   IF open = None THEN Some(CleanOf(ls[1]))
                   ELSE Some(open[1] \o " " \o CleanOf(ls[1])))
    ELSE IF ks[1] = "None" THEN ActionRuns(Tail(ls), Tail(ks), open)
    ELSE (IF open = None THEN <<>> ELSE open) \o ActionRuns(Tail(ls), Tail(ks), None)

RECURSIVE ActionContents(_)
ActionContents(els) ==
    IF Len(els) = 0 THEN <<>>
    ELSE (IF els[1].element_type = "ACTION" THEN <<els[1].content>> ELSE <<>>)
         \o ActionContents(Tail(els))

\* C7: every maximal run of consecutive Action lines produces exactly one
\* Action element, whose content is the lines' texts joined by single spaces.
C7_ActionRunsMerge ==
    pc = "done" => ActionContents(elements) = ActionRuns(lines, kinds, None)

ScenarioE == <<"\t\t\tJOHN", "\t\t(quietly)", "\t\tI don't know.">>

\* C8 (as stated): for the cue JOHN at indent 3, "(quietly)" at indent 2 and
\* "I don't know." at indent 2, the output holds a Parenthetical with
\* character JOHN followed by a Dialogue of JOHN that does not hold the
\* parenthetical text.
C8_ParentheticalThenDialogue ==
    (pc = "done" /\ lines = ScenarioE) =>
        \E i, j \in 1..Len(elements) :
            /\ i < j
            /\ elements[i].element_type = "PARENTHETICAL"
            /\ elements[i].metadata = Some([character |-> Some("JOHN")])
            /\ elements[j].element_type = "DIALOGUE"
            /\ elements[j].metadata = Some([character |-> Some("JOHN")])
            /\ ~Contains(elements[j].content, "quietly")

\* C8 (amended): for those three lines the output is one Dialogue element of
\* JOHN whose content is "(quietly) I don't know."; the parenthetical line is
\* taken as dialogue text and no Parenthetical element is emitted.
C8_ParentheticalAbsorbed ==
    (pc = "done" /\ lines = ScenarioE) =>
        elements = <<ScriptElement("DIALOGUE", "(quietly) I don't know.",
                                   Some([character |-> Some("JOHN")]))>>

\* C8 witness: scenario E has been scanned to the end.
C8_Witness == pc = "done" /\ lines = ScenarioE /\ result = Some(elements)

\* C9: no emitted element has the type Character or an undefined type.
C9_NoCharacterElement ==
    \A i \in 1..Len(elements) :
        elements[i].element_type \in
            {"ACTION", "LOCATION", "TRANSITION", "SCENE_HEADING",
             "PARENTHETICAL", "DIALOGUE"}

\* C10: when the raw text is absent or empty, parse returns a Script with
\* zero elements and does not fail.
C10_EmptyInputEmptyScript ==
    (pc \in {"done", "failed"} /\ (raw_text = None \/ raw_text = Some(""))) =>
        /\ pc = "done"
        /\ error = None
        /\ result # None
        /\ result[1].elements = <<>>

\* C10 witness: parse has returned for an absent raw text.
C10_Witness == pc = "done" /\ raw_text = None /\ lines = <<>>

-----------------------------------------------------------------------------
(* The helpers called on their own.                                        *)

\* Bounds: the longest text given to _clean_text and to _get_indentation_level.
MaxTextLen == 4
MaxLineLen == 6

RECURSIVE Strings(_, _)
Strings(chars, n) ==
    IF n = 0 THEN {""}
    ELSE LET shorter == Strings(chars, n - 1)
         IN shorter \cup {s \o c : s \in shorter, c \in chars}

NormalizerInputs == Strings({"a", " ", "\t", "\r", "\n"}, MaxTextLen)
AnalyzerInputs == Strings({"a", " ", "\t"}, MaxLineLen)

Call(fn, text, include_tabs) ==
    Some([fn |-> fn, text |-> text, include_tabs |-> include_tabs, rets |-> <<>>])

InitHelpers ==
    /\ ScanInit
    /\ conc = None
    /\ \/ \E t \in NormalizerInputs : call = Call("_clean_text", t, FALSE)
       \/ \E t \in NormalizerInputs, b \in BOOLEAN :
              call = Call("_clean_text_html", t, b)
       \/ \E t \in AnalyzerInputs : call = Call("_get_indentation_level", t, FALSE)

ScanVars == <<raw_text, lines, pc, elements, result, error, kinds, movie_title,
              V1Vars, MainVars, HistVars>>

\* _clean_text applied to the text, and then to its own result
Normalize ==
    /\ call # None
    /\ call[1].fn \in {"_clean_text", "_clean_text_html"}
    /\ Len(call[1].rets) < 2
    /\ LET c == call[1]
           x == IF c.rets = <<>> THEN c.text ELSE c.rets[Len(c.rets)]
           y == IF c.fn = "_clean_text" THEN _clean_text(x)
                ELSE _clean_text_html(x, c.include_tabs)
       IN call' = Some([c EXCEPT !.rets = Append(@, y)])
    /\ UNCHANGED <<ScanVars, conc>>

\* _get_indentation_level applied to the line
Analyze ==
    /\ call # None
    /\ call[1].fn = "_get_indentation_level"
    /\ call[1].rets = <<>>
    /\ LET r == _get_indentation_level(call[1].text)
       IN call' = Some([call[1] EXCEPT
                           !.rets = <<[indent_level |-> r[1], residual |-> r[2]]>>])
    /\ UNCHANGED <<ScanVars, conc>>

NextHelpers == Normalize \/ Analyze

SpecHelpers == InitHelpers /\ [][NextHelpers]_vars

-----------------------------------------------------------------------------
(* Two text_v1 scans of different inputs, their iterations interleaved.    *)

\* Bound: the most lines each of the two scans reads.
MaxConcLines == 3

Scans == {1, 2}

\* The lines each scan draws its input from, and its movie_title argument.
ConcLines ==
    << {"INT. ROOM - DAY", "\t\tI don't know."},
       {"\tA man walks in.", "\t\t(quietly)", ""} >>

ConcTitles == << "Big-Lebowski,-The", "Fargo" >>

\* Mutant of Frame: every invocation works on the same variables.
Frame_Shared(p) == 1

\* The frame holding the variables of invocation p of _parse_script_lines:
\* script, read_title and current_element are locals of the call (lines 174-177).
Frame(p) == p

\* lines 174-177: the locals as a call of _parse_script_lines starts
NewFrame == [read_title |-> FALSE, movie_title_attr |-> None, current_element |-> None]

NewScan == [lines |-> <<>>, pc |-> "scanning", elements |-> <<>>,
            result |-> None, error |-> None]

InitConc ==
    /\ ScanInit
    /\ call = None
    /\ conc = Some([frame |-> [f \in Scans |-> NewFrame],
                    scan |-> [p \in Scans |-> NewScan]])

\* One iteration of `for line in lines` (line 179) of scan p, with the
\* consumer loop of its parse_script (lines 265-266).
ConcReadLine(p) ==
    /\ conc # None
    /\ conc[1].scan[p].pc = "scanning"
    /\ Len(conc[1].scan[p].lines) < MaxConcLines
    /\ \E line \in ConcLines[p] :
        LET f == Frame(p)
            loc == conc[1].frame[f]
            sc == conc[1].scan[p]
            it == V1Iteration(line, loc.read_title, loc.movie_title_attr,
                              loc.current_element)
            els == sc.elements \o it.yielded
        IN conc' = Some(
              [frame |-> [conc[1].frame EXCEPT ![f] =
                             [read_title |-> it.read_title,
                              movie_title_attr |-> it.movie_title_attr,
                              current_element |-> it.current_element]],
               scan |-> [conc[1].scan EXCEPT ![p] =
                             [lines |-> Append(sc.lines, line),
                              pc |-> IF it.raised # None THEN "failed" ELSE "scanning",
                              elements |-> els,
                              result |-> IF it.raised # None
                                         THEN ResultOnRaise(ConcTitles[p], els,
                                                            loc.current_element)
                                         ELSE sc.result,
                              error |-> it.raised]]])
    /\ UNCHANGED <<ScanVars, call>>

\* The lines of scan p are exhausted: its parse_script returns (line 267).
ConcEndOfInput(p) ==
    /\ conc # None
    /\ conc[1].scan[p].pc = "scanning"
    /\ ~Falsy(Some(JoinLines(conc[1].scan[p].lines, "\r\n")))
    /\ conc' = Some([conc[1] EXCEPT
                        !.scan[p].pc = "done",
                        !.scan[p].result =
                            ResultOnReturn(ConcTitles[p], conc[1].scan[p].elements)])
    /\ UNCHANGED <<ScanVars, call>>

NextConc == \E p \in Scans : ConcReadLine(p) \/ ConcEndOfInput(p)

SpecConc == InitConc /\ [][NextConc]_vars

\* C11: scenario A gives the title "THE GREAT TEST" and exactly three elements:
\* SceneHeading "INT. ROOM - DAY", Action "A man walks in.", Dialogue of JOHN
\* with the sentences "Hello there." and "How are you?".
C11_ScenarioA ==
    (pc = "done" /\ lines = ScenarioA) =>
        /\ result # None
        /\ result[1].title = "THE GREAT TEST"
        /\ Len(result[1].elements) = 3
        /\ result[1].elements[1].element_type = "SCENE_HEADING"
        /\ result[1].elements[1].content = <<"INT. ROOM - DAY">>
        /\ result[1].elements[2].element_type = "ACTION"
        /\ result[1].elements[2].content = <<"A man walks in.">>
        /\ result[1].elements[3].element_type = "DIALOGUE"
        /\ result[1].elements[3].metadata.character = Some("JOHN")
        /\ result[1].elements[3].content = <<"Hello there.", "How are you?">>

\* C12: normalize is idempotent: normalizing a normalized text changes nothing.
C12_NormalizeIdempotent ==
    (/\ call # None
     /\ call[1].fn \in {"_clean_text", "_clean_text_html"}
     /\ Len(call[1].rets) = 2) => call[1].rets[2] = call[1].rets[1]

\* C12 witness: a text the normalizer changed to "a a" has been normalized twice.
C12_Witness ==
    /\ call # None
    /\ call[1].fn = "_clean_text"
    /\ call[1].text = "a\n a"
    /\ call[1].rets = <<"a a", "a a">>

\* The length of the maximal leading run of tabs and spaces of a line.
LeadingRun(line) ==
    CHOOSE k \in 0..Len(line) :
        /\ \A i \in 1..k : Chr(line, i) \in {"\t", " "}
        /\ (k < Len(line) => Chr(line, k + 1) \notin {"\t", " "})

\* C19: analyze returns indent_level = T + floor(S / 4) for the T tabs and S
\* spaces of the maximal leading run of tabs and spaces, in any interleaving,
\* and the line without that run as residual, which never begins with a tab
\* or a space; the empty line returns (0, "").
C19_IndentOfLeadingRun ==
    (/\ call # None
     /\ call[1].fn = "_get_indentation_level"
     /\ call[1].rets # <<>>) =>
        LET line == call[1].text
            k == LeadingRun(line)
            T == Cardinality({i \in 1..k : Chr(line, i) = "\t"})
            S == Cardinality({i \in 1..k : Chr(line, i) = " "})
            r == call[1].rets[1]
        IN  /\ r.indent_level = T + (S \div 4)
            /\ r.residual = SubSeq(line, k + 1, Len(line))
            /\ Len(r.residual) = Len(line) - (T + S)
            /\ (r.residual # "" => Chr(r.residual, 1) \notin {"\t", " "})
            /\ (line = "" => (r.indent_level = 0 /\ r.residual = ""))

\* C19 witness: a line with interleaved spaces and tabs, four spaces in all,
\* has been analyzed.
C19_Witness ==
    /\ call # None
    /\ call[1].fn = "_get_indentation_level"
    /\ call[1].text = " \t   a"
    /\ call[1].rets = <<[indent_level |-> 2, residual |-> "a"]>>

\* The element the open element `el` is when flushed (lines 191-204).
Flushed(el) ==
    IF el.element_type = "DIALOGUE" /\ Len(el.content) # 0
    THEN [el EXCEPT !.content = Splitter_split(@[1])]
    ELSE el

\* C13: when the lines are exhausted while an element with accumulated
\* content is in progress, that element is the last element of the output.
C13_EndOfInputFlushes ==
    (/\ pc = "done"
     /\ current_element # None
     /\ Len(current_element[1].content) # 0) =>
        /\ result # None
        /\ Len(result[1].elements) # 0
        /\ result[1].elements[Len(result[1].elements)] = Flushed(current_element[1])

\* The cue line whose character is tracked when line i is processed: the most
\* recent CHARACTER line with no SCENE_HEADING or ACTION line after it.
CueBefore(i) ==
    {j \in 1..(i - 1) :
        /\ kinds[j] = "CHARACTER"
        /\ \A m \in (j + 1)..(i - 1) :
              kinds[m] \notin {"CHARACTER", "SCENE_HEADING", "ACTION"}}

\* C14: a line taken as a Dialogue continuation while no character is tracked
\* is emitted as Action text, and the dialogue buffer never holds text
\* without a tracked character (text that is later discarded).
C14_NoCharacterMeansAction ==
    /\ \A i \in 1..Len(kinds) :
          (kinds[i] = "DIALOGUE" /\ CueBefore(i) = {}) =>
              \E k \in 1..Len(elements) :
                  /\ elements[k].element_type = "ACTION"
                  /\ sources[k] = {i}
    /\ (current_character = None => current_dialogue = <<>>)

\* C15: elements appear in source order: for any two emitted elements e1
\* before e2, every line that contributed text to e1 precedes every line
\* that contributed text to e2.
C15_SourceOrder ==
    \A k1, k2 \in 1..Len(elements) :
        k1 < k2 => \A i1 \in sources[k1], i2 \in sources[k2] : i1 < i2

\* C16: every SceneHeading line produces its own element holding exactly that
\* one line's text; no element, emitted or in progress, holds two heading lines.
C16_SceneHeadingSingleLine ==
    /\ \A k \in 1..Len(elements) :
          elements[k].element_type = "SCENE_HEADING" =>
              /\ Cardinality(sources[k]) = 1
              /\ \A i \in sources[k] : elements[k].content = <<CleanOf(lines[i])>>
    /\ (current_element # None /\ current_element[1].element_type = "SCENE_HEADING")
          => Len(current_element[1].content) <= 1

\* The classification rules in their priority order, each with whether it
\* matches a line of the given indent level and text in the given state.
Rules(indent, text, in_run) ==
    << [matches |-> text = "", type |-> "None"],
       [matches |-> indent <= 1 /\ isupper(text) /\ WordCount(text) > 2,
        type |-> "SCENE_HEADING"],
       [matches |-> indent >= 3 /\ WordCount(text) <= 3, type |-> "CHARACTER"],
       [matches |-> in_run /\ indent >= 2, type |-> "DIALOGUE"],
       [matches |-> startswith(text, "(") /\ endswith(text, ")"),
        type |-> "PARENTHETICAL"],
       [matches |-> TRUE, type |-> "ACTION"] >>

FirstMatchingRule(indent, text, in_run) ==
    LET r == Rules(indent, text, in_run)
        n == CHOOSE n \in 1..Len(r) :
                 r[n].matches /\ \A m \in 1..(n - 1) : ~r[m].matches
    IN r[n].type

\* What a step that read one more line did with it, read off the state change.
Treated(type) ==
    LET text == CleanOf(lines'[Len(lines')])
        emitted == elements'[Len(elements')]
    IN CASE type = "None" ->
                elements' = elements /\ UNCHANGED MainVars
         [] type = "SCENE_HEADING" ->
                /\ Len(elements') > Len(elements)
                /\ emitted.element_type = "SCENE_HEADING"
                /\ emitted.content = text
         [] type = "CHARACTER" ->
                current_character' = Some(upper(text)) /\ in_dialogue'
         [] type = "DIALOGUE" ->
                /\ current_dialogue' = Append(current_dialogue, text)
                /\ elements' = elements
         [] type = "PARENTHETICAL" ->
                /\ Len(elements') = Len(elements) + 1
                /\ emitted.element_type = "PARENTHETICAL"
         [] type = "ACTION" ->
                /\ Len(elements') > Len(elements)
                /\ emitted.element_type = "ACTION"
                /\ emitted.content = text
                /\ ~in_dialogue'

\* C17: the type assigned to a line is that of the first matching rule in the
\* order: empty -> none; indent <= 1, all upper-case, more than two words ->
\* SceneHeading; indent >= 3, at most three words -> Character; in a dialogue
\* run and indent >= 2 -> Dialogue; wrapped in parentheses -> Parenthetical;
\* otherwise Action.
C17_FirstMatchWins ==
    [][Len(lines') = Len(lines) + 1 =>
          LET line == lines'[Len(lines')]
              type == FirstMatchingRule(IndentOf(line), CleanOf(line), in_dialogue)
          IN kinds'[Len(kinds')] = type /\ Treated(type)]_vars

\* C17 witness: lines matching more than one rule have been classified: a
\* cue inside a dialogue run (Character before Dialogue) and a parenthesised
\* line at indent 2 inside a run (Dialogue before Parenthetical).
C17_Witness ==
    /\ Len(lines) = 3
    /\ lines = <<"\t\t\tJOHN", "\t\t\tJOHN", "\t\t(quietly)">>
    /\ kinds = <<"CHARACTER", "CHARACTER", "DIALOGUE">>

\* C20: processing a Parenthetical line emits one Parenthetical element whose
\* character metadata is the tracked character (the most recent cue not since
\* cleared by an Action or SceneHeading line, otherwise none) and leaves the
\* tracked character, the dialogue buffer and the in-dialogue state unchanged.
C20_ParentheticalFrame ==
    [][(Len(lines') = Len(lines) + 1 /\ kinds'[Len(kinds')] = "PARENTHETICAL") =>
          LET i == Len(lines')
              tracked == IF CueBefore(i) = {} THEN None
                         ELSE Some(upper(CleanOf(lines[CHOOSE j \in CueBefore(i) : TRUE])))
          IN  /\ Len(elements') = Len(elements) + 1
              /\ SubSeq(elements', 1, Len(elements)) = elements
              /\ elements'[Len(elements')].element_type = "PARENTHETICAL"
              /\ elements'[Len(elements')].content = Slice1m1(CleanOf(lines'[i]))
              /\ elements'[Len(elements')].metadata = Some([character |-> tracked])
              /\ current_character = tracked
              /\ UNCHANGED MainVars]_vars

\* C20 witness: a Parenthetical line was processed while a character was
\* tracked and dialogue text was accumulated, and both are still there.
C20_Witness ==
    /\ lines = <<"\t\t\tJOHN", "\t\tI don't know.", "()">>
    /\ kinds[3] = "PARENTHETICAL"
    /\ Len(elements) = 1
    /\ elements[1].metadata = Some([character |-> Some("JOHN")])
    /\ current_character = Some("JOHN")
    /\ current_dialogue = <<"I don't know.">>
    /\ in_dialogue

\* Whether a content value is a list (True) or a str (False): the two print
\* differently, "<<...>>" against a quoted text.
IsList(content) == SubSeq(ToString(content), 1, 2) = "<<"

\* The lines of `from`, in order, normalized and ' '-joined.
RECURSIVE JoinedText(_)
JoinedText(from) ==
    IF from = {} THEN ""
    ELSE LET i == CHOOSE i \in from : \A j \in from : i <= j
             rest == JoinedText(from \ {i})
         IN IF rest = "" THEN CleanOf(lines[i]) ELSE CleanOf(lines[i]) \o " " \o rest

\* C18: every emitted Dialogue element's content is the sentence sequence the
\* segmenter returns for the space-joined accumulated dialogue text (the lines
\* after the cue line), and every emitted non-Dialogue element carries its
\* content as a single string, never a sequence.
C18_ContentShape ==
    \A k \in 1..Len(elements) :
        IF elements[k].element_type = "DIALOGUE"
        THEN LET cue == CHOOSE i \in sources[k] : \A j \in sources[k] : i <= j
             IN /\ IsList(elements[k].content)
                /\ elements[k].content = Splitter_split(JoinedText(sources[k] \ {cue}))
        ELSE ~IsList(elements[k].content)

\* The dialogue-continuation lines after the cue line j and before the next
\* character cue, scene heading or action line.
RunOf(j) ==
    {i \in (j + 1)..Len(kinds) :
        /\ kinds[i] = "DIALOGUE"
        /\ \A m \in (j + 1)..(i - 1) :
              kinds[m] \notin {"CHARACTER", "SCENE_HEADING", "ACTION"}}

\* The cue lines whose run has text and has ended.
SpokenCues ==
    {j \in 1..Len(kinds) :
        /\ kinds[j] = "CHARACTER"
        /\ RunOf(j) # {}
        /\ \/ pc = "done"
           \/ \E m \in (j + 1)..Len(kinds) :
                  kinds[m] \in {"CHARACTER", "SCENE_HEADING", "ACTION"}}

\* The n-th smallest member of a set of numbers.
RECURSIVE Nth(_, _)
Nth(set, n) ==
    LET least == CHOOSE i \in set : \A j \in set : i <= j
    IN IF n = 1 THEN least ELSE Nth(set \ {least}, n - 1)

IsDialogue(e) == e.element_type = "DIALOGUE"

\* C22: no bleeding between speakers: the emitted Dialogue elements are, in
\* order, one per character cue whose run has text, each with that cue's
\* character and with the space-joined normalized texts, in source order, of
\* exactly the dialogue lines between that cue and the next character cue,
\* scene heading or action line; so no line's text is in two elements.
C22_NoBleeding ==
    LET said == SelectSeq(elements, IsDialogue)
    IN  /\ Len(said) = Cardinality(SpokenCues)
        /\ \A n \in 1..Len(said) :
              LET j == Nth(SpokenCues, n)
              IN  /\ said[n].metadata = Some([character |-> Some(upper(CleanOf(lines[j])))])
                  /\ said[n].content = JoinedText(RunOf(j))

\* C22 witness: two different speakers, each with a line of dialogue, have
\* both been emitted, each with its own line.
C22_Witness ==
    /\ pc = "done"
    /\ kinds = <<"CHARACTER", "DIALOGUE", "CHARACTER", "DIALOGUE">>
    /\ Len(elements) = 2
    /\ elements[1].metadata = Some([character |-> Some("JOHN")])
    /\ elements[1].content = "I don't know."
    /\ elements[2].metadata = Some([character |-> Some("CUT TO:")])
    /\ elements[2].content = "(quietly)"

\* An element of type DIALOGUE is in progress.
OpenDialogue(cur) == cur # None /\ cur[1].element_type = "DIALOGUE"

\* C23: when a new Dialogue element is opened, the text of the first line of
\* the run is stored only as its character metadata and its content stays
\* empty, whatever the line's indent level or wording; every later line of
\* the run goes to content only, the character staying what it was; and the
\* element is emitted with that character.
C23_FirstLineIsCharacter ==
    [][(Len(lines') = Len(lines) + 1 /\ error' = None) =>
          LET text == CleanOf(lines'[Len(lines')])
              opened == OpenDialogue(current_element')
                        /\ (current_element = None \/ elements' # elements)
              continued == /\ OpenDialogue(current_element)
                           /\ OpenDialogue(current_element')
                           /\ elements' = elements
                           /\ text # ""
              yielded == SubSeq(elements', Len(elements) + 1, Len(elements'))
          IN  /\ opened =>
                    /\ current_element'[1].metadata.character = Some(text)
                    /\ current_element'[1].content = <<>>
              /\ continued =>
                    /\ current_element'[1].metadata.character
                           = current_element[1].metadata.character
                    /\ current_element'[1].content =
                           IF current_element[1].content = <<>> THEN <<text>>
                           ELSE <<current_element[1].content[1] \o " " \o text>>
              /\ (OpenDialogue(current_element) /\ yielded # <<>>) =>
                    /\ yielded[1].element_type = "DIALOGUE"
                    /\ yielded[1].metadata = current_element[1].metadata
                    /\ (current_element[1].content # <<>> =>
                           yielded[1].content
                              = Splitter_split(current_element[1].content[1]))]_vars

\* C23 witness: a Dialogue element opened by an indent-2 line that is no cue
\* has that line as its character and the two later lines as its content.
C23_Witness ==
    /\ lines = <<"INT. ROOM - DAY", "\t\tI don't know.", "\t\t(quietly)", "\t\tI don't know.">>
    /\ OpenDialogue(current_element)
    /\ current_element[1].metadata.character = Some("I don't know.")
    /\ current_element[1].content = <<"(quietly) I don't know.">>

\* C24: a blank line closes and emits an in-progress Dialogue element, and
\* leaves an in-progress element of any other type unchanged and unemitted.
C24_BlankClosesOnlyDialogue ==
    [][(Len(lines') = Len(lines) + 1 /\ CleanOf(lines'[Len(lines')]) = ""
        /\ current_element # None) =>
          IF OpenDialogue(current_element)
          THEN /\ current_element' = None
               /\ elements' = Append(elements, Flushed(current_element[1]))
          ELSE /\ current_element' = current_element
               /\ elements' = elements]_vars

\* What one scan alone makes of the lines ls from line i on, from the locals
\* `loc` with the elements `els` yielded so far: the for loop of lines
\* 179-253 run without interruption.
RECURSIVE RunFrom(_, _, _, _)
RunFrom(ls, i, loc, els) ==
    IF i > Len(ls) THEN [raised |-> None, elements |-> els, frame |-> loc]
    ELSE LET it == V1Iteration(ls[i], loc.read_title, loc.movie_title_attr,
                               loc.current_element)
             now == [read_title |-> it.read_title,
                     movie_title_attr |-> it.movie_title_attr,
                     current_element |-> it.current_element]
         IN IF it.raised # None
            THEN [raised |-> it.raised, elements |-> els \o it.yielded, frame |-> now]
            ELSE RunFrom(ls, i + 1, now, els \o it.yielded)

RunAlone(ls) == RunFrom(ls, 1, NewFrame, <<>>)

\* C21: in every interleaving of the iterations of two scans of different
\* inputs, each scan has the title, the elements, the failure and the local
\* variables it has when it reads the same lines alone.
C21_ScansIndependent ==
    conc # None =>
        \A p \in Scans :
            LET sc == conc[1].scan[p]
                alone == RunAlone(sc.lines)
            IN  /\ sc.elements = alone.elements
                /\ sc.error = alone.raised
                /\ (sc.pc = "failed") = (alone.raised # None)
                /\ conc[1].frame[p] = alone.frame
                /\ sc.pc = "done" =>
                       sc.result = Some(Script(ConcTitles[p], alone.elements))
                /\ sc.pc = "failed" => sc.result = None

\* C21 witness: the second scan has emitted an element and returned while
\* the first scan, past its title, has an element in progress.
C21_Witness ==
    /\ conc # None
    /\ conc[1].scan[1].pc = "scanning"
    /\ conc[1].frame[1].movie_title_attr = "INT. ROOM - DAY"
    /\ conc[1].frame[1].current_element # None
    /\ conc[1].scan[2].pc = "done"
    /\ conc[1].frame[2].movie_title_attr = "A man walks in."
    /\ Len(conc[1].scan[2].result[1].elements) = 1

====
